---- MODULE Spec2Model ----
(***************************************************************************)
(* Model of capture_with_gps.py: a GPS decoder thread that updates the     *)
(* shared dictionary latest_gps_data field by field, and the main thread   *)
(* that polls the PPS line and, on each edge, runs pps_callback and        *)
(* save_photo_with_exif synchronously.  The two threads share no lock, so  *)
(* every read and every write of latest_gps_data is a step of its own.     *)
(* Program counters are named after the source line they stand at.         *)
(* format_gps_for_exif is also run on its own over a grid of inputs, and   *)
(* the request handlers of pi_wiki.py are modelled with the directory of   *)
(* wiki pages they read and write.                                         *)
(***************************************************************************)
EXTENDS Integers, Sequences, FiniteSets, TLC

\* ---------------------------------------------------------------- bounds
\* Valid sentences the serial port delivers in one run; lines that are
\* discarded are not counted.
MaxSentences == 2
\* Capture requests in one run: the PPS source stops raising the line after
\* that many; pulses that are skipped are not counted.
MaxCaptures == 2
\* Cap of the count of has_event() polls made after the decoder thread ended.
MaxPollsSinceDead == 3
\* Resolution of a timestamp: ticks per second (datetime carries sub-seconds).
TicksPerSecond == 2
\* Resolution of a coordinate: units per hundredth of a second of arc (a float
\* carries more than the hundredths that format_gps_for_exif keeps).
Resolution == 2
\* Longest page name requested from the wiki, in characters.
MaxNameLen == 2
\* Pages created in the wiki besides the Home page.
MaxPages == 1

\* ---------------------------------------------------------------- values
\* Python's None is the empty tuple, a present value v is <<v>>.
None == << >>
Some(v) == << v >>
Val(x) == x[1]

\* Noon of day 1.
Noon == (86400 + 43200) * TicksPerSecond

\* Coordinates are decimal degrees in fixed point: one degree, one minute of
\* arc and one hundredth of a second of arc, in units.
Degree == 360000 * Resolution
Minute == 6000 * Resolution
Hundredth == Resolution

\* What pynmea2.parse makes of one line read from the port.
\*   kind   "RMC" | "GGA" for a line with a recognized prefix, "other" else
\*   parse  "ok" | "error" (ParseError)
\*   valid  msg.is_valid
\* The positions the sentences carry: 51.5 N (and one unit) 0.12 W, the
\* equator at 151 E, and 33.75 S on the prime meridian.
Lat51N == 18540000 * Resolution + 1
Lon0W == -(43200 * Resolution)
Lon151E == 54360000 * Resolution
Lat33S == -(12150000 * Resolution)

\* The valid sentences: an RMC one tick before noon, an RMC at noon and an
\* RMC one tick after noon (the same second as noon), and a GGA (which has
\* no date+time).
ValidSentences ==
    { [kind |-> "RMC", parse |-> "ok", valid |-> TRUE,
       ts |-> Some(Noon - 1), lat |-> Lat51N, lon |-> Lon0W],
      [kind |-> "RMC", parse |-> "ok", valid |-> TRUE,
       ts |-> Some(Noon), lat |-> 0, lon |-> Lon151E],
      [kind |-> "RMC", parse |-> "ok", valid |-> TRUE,
       ts |-> Some(Noon + 1), lat |-> 0, lon |-> Lon151E],
      [kind |-> "GGA", parse |-> "ok", valid |-> TRUE,
       ts |-> None, lat |-> Lat33S, lon |-> 0] }

\* The recognized sentences that are discarded: one that does not parse and
\* one that parses with is_valid false.
BadSentences ==
    { [kind |-> "RMC", parse |-> "error", valid |-> FALSE,
       ts |-> None, lat |-> 0, lon |-> 0],
      [kind |-> "GGA", parse |-> "ok", valid |-> FALSE,
       ts |-> None, lat |-> 0, lon |-> 0] }

\* A line without a recognized prefix.
OtherLine == [kind |-> "other", parse |-> "error", valid |-> FALSE,
              ts |-> None, lat |-> 0, lon |-> 0]

Lines == ValidSentences \cup BadSentences \cup {OtherLine}

NoMsg == [kind |-> "none", parse |-> "error", valid |-> FALSE,
          ts |-> None, lat |-> 0, lon |-> 0]

\* ---------------------------------------------------------- pure functions
\* int() of a quotient: truncation toward zero.
TruncDiv(a, b) == IF a >= 0 THEN a \div b ELSE -((-a) \div b)

\* format_gps_for_exif as it would be with the minutes rounded to the
\* nearest instead of truncated.
format_gps_for_exif_Rounded(degrees, direction) ==
    LET d == TruncDiv(degrees, Degree)
        rest == degrees - d * Degree
        m == TruncDiv(2 * rest + Minute, 2 * Minute)
        s100 == TruncDiv(rest - m * Minute, Hundredth)
    IN  << <<d, 1>>, <<m, 1>>, <<s100, 100>> >>

\* format_gps_for_exif(degrees, direction): degrees, minutes and hundredths
\* of a second, each truncated toward zero from the signed input; direction
\* is not used.
format_gps_for_exif(degrees, direction) ==
    LET d == TruncDiv(degrees, Degree)
        rest == degrees - d * Degree
        m == TruncDiv(rest, Minute)
        s100 == TruncDiv(rest - m * Minute, Hundredth)
    IN  << <<d, 1>>, <<m, 1>>, <<s100, 100>> >>

\* LatRef as it would be with the test "latitude >= 0".
LatRef_ZeroNorth(latitude) == IF latitude >= 0 THEN "N" ELSE "S"

\* The reference letters of lines 79-80 and 85-87.
LatRef(latitude) == IF latitude > 0 THEN "N" ELSE "S"
LonRef(longitude) == IF longitude > 0 THEN "E" ELSE "W"

\* Fields of a datetime counted in ticks.
SecondOfDay(ts) == (ts \div TicksPerSecond) % 86400
DayOf(ts) == (ts \div TicksPerSecond) \div 86400
HourOf(ts) == SecondOfDay(ts) \div 3600
MinuteOf(ts) == (SecondOfDay(ts) % 3600) \div 60
SecondOf(ts) == SecondOfDay(ts) % 60

\* strftime("%Y:%m:%d") and strftime("%Y%m%d_%H%M%S") inside the file name.
DateStamp(ts) == << "date", DayOf(ts) >>

\* FileName as it would be with the fraction of the second in the format
\* ("%Y%m%d_%H%M%S_%f").
FileName_WithFraction(ts) ==
    << "capture", DayOf(ts), HourOf(ts), MinuteOf(ts), SecondOf(ts),
       ts % TicksPerSecond >>

FileName(ts) == << "capture", DayOf(ts), HourOf(ts), MinuteOf(ts), SecondOf(ts) >>

\* ----------------------------------------------------------------- state
VARIABLES
    gps,        \* latest_gps_data: fix ("None" | "True" | "False"), timestamp,
                \* latitude, longitude (None or Some(v))
    pcGps,      \* the decoder thread's position
    msg,        \* the decoder's current line as parsed
    validRead,  \* valid sentences read so far
    serialErr,  \* "none" | "open" | "read": where SerialException was raised
    gpsAtRead,  \* history: latest_gps_data when the decoder last stood at line 41
    pcMain,     \* the main thread's position
    camera,     \* "off" | "running" | "stopped"
    lineBound,  \* the name pps_line is bound
    lineHeld,   \* the PPS line is requested and not released
    loc,        \* locals of pps_callback and save_photo_with_exif
    captures,   \* capture requests made so far
    dirExists,  \* OUTPUT_DIR exists
    files,      \* OUTPUT_DIR: file name -> [img, exif]
    fixAtCheck, \* history: latest_gps_data when line 117 read the fix flag
                \* for the pulse being handled
    pollsSinceDead, \* history: has_event() polls made since the decoder
                    \* thread ended
    pulse,      \* history: capture requests and file writes made for the
                \* edge event read last
    saved,      \* history: << timestamp of line 100, image >> of every file
                \* write, in order
    degrees,    \* format_gps_for_exif run on its own: the argument
    dms,        \* ... and the value returned (None before the call)
    wiki_pages, \* pi_wiki.py: the paths of the files that exist
    wikiReq     \* pi_wiki.py: the request being handled (None when idle)

gpsVars == << gps, pcGps, msg, validRead, serialErr, gpsAtRead >>
\* The state of format_gps_for_exif run on its own, and of pi_wiki.py.
formatVars == << degrees, dms >>
wikiVars == << wiki_pages, wikiReq >>
\* What every step of the main thread but the poll of line 164 leaves alone.
mainFrame == << gpsVars, pollsSinceDead, formatVars, wikiVars >>
\* What every step of the decoder thread leaves alone.
mainVars == << pcMain, camera, lineBound, lineHeld, loc, captures,
               dirExists, files, fixAtCheck, pollsSinceDead, pulse, saved,
               formatVars, wikiVars >>
\* The state of capture_with_gps.py.
captureVars == << gps, pcGps, msg, validRead, serialErr, gpsAtRead, pcMain,
                  camera, lineBound, lineHeld, loc, captures, dirExists,
                  files, fixAtCheck, pollsSinceDead, pulse, saved >>
vars == << captureVars, formatVars, wikiVars >>

latest_gps_data ==
    [fix |-> "None", timestamp |-> None, latitude |-> None, longitude |-> None]

NoLocals ==
    [request |-> "none", image_data |-> 0, lat_exif |-> None, lon_exif |-> None,
     lat_ref |-> None, lon_ref |-> None, date |-> None,
     hour |-> None, minute |-> None, second |-> None,
     stamp |-> None, filename |-> None]

\* No capture request and no file write yet for the event read last.
NoPulse == [captures |-> 0, writes |-> 0]

NoFiles == [n \in {} |-> 0]

\* The process runs until the main thread has left the script; the decoder
\* is a daemon thread and ends with it.
ProcessRunning == pcMain \notin {"done", "crashed"}

\* gps_thread.is_alive()
is_alive == pcGps # "dead"

\* capture_with_gps.py as the script starts.
CaptureInit ==
    /\ gps = latest_gps_data
    /\ pcGps = "L39"
    /\ msg = NoMsg
    /\ validRead = 0
    /\ serialErr = "none"
    /\ gpsAtRead = latest_gps_data
    /\ pcMain = "L140"
    /\ camera = "off"
    /\ lineBound = FALSE
    /\ lineHeld = FALSE
    /\ loc = NoLocals
    /\ captures = 0
    /\ dirExists = FALSE
    /\ files = NoFiles
    /\ fixAtCheck = latest_gps_data
    /\ pollsSinceDead = 0
    /\ pulse = NoPulse
    /\ saved = << >>

\* format_gps_for_exif not run on its own; pi_wiki.py not started.
FormatIdle == degrees = 0 /\ dms = None
WikiIdle == wiki_pages = {} /\ wikiReq = None

Init == CaptureInit /\ FormatIdle /\ WikiIdle

\* ------------------------------------------------------ the decoder thread
\* SerialException as it would be handled without the assignment of line 58.
SerialException_FlagKept(where) ==
    /\ gps' = gps
    /\ serialErr' = where
    /\ pcGps' = "end"

\* Lines 55-58: a SerialException raised at line 39 or 41 leaves the loop for
\* the handler, which sets the fix flag to False; the function then returns.
SerialException(where) ==
    /\ gps' = [gps EXCEPT !.fix = "False"]
    /\ serialErr' = where
    /\ pcGps' = "end"

\* Line 39: serial.Serial(...) opens the port, or raises SerialException.
GpsOpen ==
    /\ ProcessRunning /\ pcGps = "L39"
    /\ \E ok \in BOOLEAN :
         IF ok THEN /\ pcGps' = "L41"
                    /\ UNCHANGED << gps, serialErr >>
               ELSE SerialException("open")
    /\ UNCHANGED << msg, validRead, gpsAtRead >>
    /\ UNCHANGED mainVars

\* Line 41: ser.readline() returns the next line (empty on timeout).  The
\* receiver's clock does not run backwards: an RMC sentence is not older than
\* the one before it, whose timestamp the record holds.
GpsReadLine ==
    /\ ProcessRunning /\ pcGps = "L41"
    /\ \E l \in Lines :
         /\ l \in ValidSentences => validRead < MaxSentences
         /\ (l.ts # None /\ gps.timestamp # None)
               => Val(l.ts) >= Val(gps.timestamp)
         /\ msg' = l
         /\ validRead' = IF l \in ValidSentences THEN validRead + 1 ELSE validRead
    /\ gpsAtRead' = gps
    /\ pcGps' = "L42"
    /\ UNCHANGED << gps, serialErr >>
    /\ UNCHANGED mainVars

\* Line 41: ser.readline() raises SerialException (the device went away).
GpsReadFail ==
    /\ ProcessRunning /\ pcGps = "L41"
    /\ SerialException("read")
    /\ UNCHANGED << msg, validRead, gpsAtRead >>
    /\ UNCHANGED mainVars

\* GpsParse as it would be if a recognized sentence that is discarded took
\* the fix flag back.
GpsParse_ClearsFix ==
    /\ ProcessRunning /\ pcGps = "L42"
    /\ IF msg.kind \in {"RMC", "GGA"} /\ msg.parse = "ok" /\ msg.valid
          THEN /\ pcGps' = "L46"
               /\ msg' = msg
               /\ gps' = gps
          ELSE /\ pcGps' = "L41"
               /\ msg' = NoMsg
               /\ gps' = IF msg.kind \in {"RMC", "GGA"}
                             THEN [gps EXCEPT !.fix = "False"] ELSE gps
    /\ gpsAtRead' = gps'
    /\ UNCHANGED << validRead, serialErr >>
    /\ UNCHANGED mainVars

\* GpsParse as it would be without the msg.is_valid test of line 45.
GpsParse_NoValidTest ==
    /\ ProcessRunning /\ pcGps = "L42"
    /\ IF msg.kind \in {"RMC", "GGA"} /\ msg.parse = "ok"
          THEN /\ pcGps' = "L46"
               /\ msg' = msg
          ELSE /\ pcGps' = "L41"
               /\ msg' = NoMsg
    /\ UNCHANGED << gps, validRead, serialErr, gpsAtRead >>
    /\ UNCHANGED mainVars

\* Lines 42-45 and 53-54: the prefix test, pynmea2.parse and msg.is_valid.
\* Only a recognized, parsed and valid sentence goes on to the writes.
GpsParse ==
    /\ ProcessRunning /\ pcGps = "L42"
    /\ IF msg.kind \in {"RMC", "GGA"} /\ msg.parse = "ok" /\ msg.valid
          THEN /\ pcGps' = "L46"
               /\ msg' = msg
          ELSE /\ pcGps' = "L41"
               /\ msg' = NoMsg
    /\ UNCHANGED << gps, validRead, serialErr, gpsAtRead >>
    /\ UNCHANGED mainVars

\* Line 46: latest_gps_data["fix"] = True
GpsWriteFix ==
    /\ ProcessRunning /\ pcGps = "L46"
    /\ gps' = [gps EXCEPT !.fix = "True"]
    /\ pcGps' = "L47"
    /\ UNCHANGED << msg, validRead, serialErr, gpsAtRead >>
    /\ UNCHANGED mainVars

\* GpsWriteTimestamp as it would be without the isinstance test of line 47.
GpsWriteTimestamp_AnyKind ==
    /\ ProcessRunning /\ pcGps = "L47"
    /\ gps' = [gps EXCEPT !.timestamp = msg.ts]
    /\ pcGps' = "L49"
    /\ UNCHANGED << msg, validRead, serialErr, gpsAtRead >>
    /\ UNCHANGED mainVars

\* Lines 47-48: an RMC sentence overwrites the timestamp.
GpsWriteTimestamp ==
    /\ ProcessRunning /\ pcGps = "L47"
    /\ gps' = IF msg.kind = "RMC" THEN [gps EXCEPT !.timestamp = msg.ts] ELSE gps
    /\ pcGps' = "L49"
    /\ UNCHANGED << msg, validRead, serialErr, gpsAtRead >>
    /\ UNCHANGED mainVars

\* GpsWriteLatitude as it would be if latitude and longitude were stored by
\* one indivisible update.
GpsWriteLatitude_WithLongitude ==
    /\ ProcessRunning /\ pcGps = "L49"
    /\ gps' = [gps EXCEPT !.latitude = Some(msg.lat),
                          !.longitude = Some(msg.lon)]
    /\ pcGps' = "L51"
    /\ UNCHANGED << msg, validRead, serialErr, gpsAtRead >>
    /\ UNCHANGED mainVars

\* Lines 49-50: RMC and GGA both have a latitude.
GpsWriteLatitude ==
    /\ ProcessRunning /\ pcGps = "L49"
    /\ gps' = [gps EXCEPT !.latitude = Some(msg.lat)]
    /\ pcGps' = "L51"
    /\ UNCHANGED << msg, validRead, serialErr, gpsAtRead >>
    /\ UNCHANGED mainVars

\* Lines 51-52: RMC and GGA both have a longitude; then back to line 41.
GpsWriteLongitude ==
    /\ ProcessRunning /\ pcGps = "L51"
    /\ gps' = [gps EXCEPT !.longitude = Some(msg.lon)]
    /\ pcGps' = "L41"
    /\ msg' = NoMsg
    /\ gpsAtRead' = gps'
    /\ UNCHANGED << validRead, serialErr >>
    /\ UNCHANGED mainVars

\* The thread function has returned; from here is_alive() is false.
GpsThreadEnd ==
    /\ ProcessRunning /\ pcGps = "end"
    /\ pcGps' = "dead"
    /\ UNCHANGED << gps, msg, validRead, serialErr, gpsAtRead >>
    /\ UNCHANGED mainVars

GpsStep ==
    \/ GpsOpen \/ GpsReadLine \/ GpsReadFail \/ GpsParse
    \/ GpsWriteFix \/ GpsWriteTimestamp \/ GpsWriteLatitude \/ GpsWriteLongitude
    \/ GpsThreadEnd

\* -------------------------------------------------------- the main thread
\* An exception that leaves the try block of lines 148-168 for the handlers
\* of lines 170-174; the finally block follows.
Raise == pcMain' = "L176"

\* Lines 140-145: Picamera2(), configure, start.  A failure here is outside
\* the try block and ends the process at once.
MainCameraInit ==
    /\ pcMain = "L140"
    /\ \E ok \in BOOLEAN :
         IF ok THEN /\ camera' = "running"
                    /\ pcMain' = "L149"
               ELSE /\ camera' = camera
                    /\ pcMain' = "crashed"
    /\ UNCHANGED << lineBound, lineHeld, loc, captures, dirExists,
                    files, fixAtCheck >>
    /\ UNCHANGED << pulse, saved >>
    /\ UNCHANGED mainFrame

\* Line 149: Chip('gpiochip4'), or FileNotFoundError (lines 170-172).
MainChip ==
    /\ pcMain = "L149"
    /\ \E ok \in BOOLEAN :
         IF ok THEN /\ pcMain' = "L150"
               ELSE /\ Raise
    /\ UNCHANGED << camera, lineBound, lineHeld, loc, captures,
                    dirExists, files, fixAtCheck >>
    /\ UNCHANGED << pulse, saved >>
    /\ UNCHANGED mainFrame

\* Line 150: pps_line = chip.get_line(PPS_PIN), or an exception.
MainGetLine ==
    /\ pcMain = "L150"
    /\ \E ok \in BOOLEAN :
         IF ok THEN /\ lineBound' = TRUE
                    /\ pcMain' = "L152"
               ELSE /\ lineBound' = lineBound
                    /\ Raise
    /\ UNCHANGED << camera, lineHeld, loc, captures, dirExists,
                    files, fixAtCheck >>
    /\ UNCHANGED << pulse, saved >>
    /\ UNCHANGED mainFrame

\* Lines 152-156: pps_line.request(...), or an exception.
MainRequestLine ==
    /\ pcMain = "L152"
    /\ \E ok \in BOOLEAN :
         IF ok THEN /\ lineHeld' = TRUE
                    /\ pcMain' = "L160"
               ELSE /\ lineHeld' = lineHeld
                    /\ Raise
    /\ UNCHANGED << camera, lineBound, loc, captures, dirExists,
                    files, fixAtCheck >>
    /\ UNCHANGED << pulse, saved >>
    /\ UNCHANGED mainFrame

\* MainAliveCheck as it would be with the test of line 160 inverted.
MainAliveCheck_Inverted ==
    /\ pcMain = "L160"
    /\ pcMain' = IF ~is_alive THEN "L164" ELSE "L176"
    /\ UNCHANGED << camera, lineBound, lineHeld, loc, captures,
                    dirExists, files, fixAtCheck >>
    /\ UNCHANGED << pulse, saved >>
    /\ UNCHANGED mainFrame

\* Lines 160-162: leave the loop when the decoder thread is no longer alive.
MainAliveCheck ==
    /\ pcMain = "L160"
    /\ pcMain' = IF is_alive THEN "L164" ELSE "L176"
    /\ UNCHANGED << camera, lineBound, lineHeld, loc, captures,
                    dirExists, files, fixAtCheck >>
    /\ UNCHANGED << pulse, saved >>
    /\ UNCHANGED mainFrame

\* Lines 164-166 and 115: has_event() tells whether the PPS source has
\* raised the line since the last read; if so read_edge_event() takes the
\* event and pps_callback is entered.
MainHasEvent ==
    /\ pcMain = "L164"
    /\ \E event \in BOOLEAN :
         pcMain' = IF event /\ captures < MaxCaptures THEN "L117" ELSE "L168"
    /\ pollsSinceDead' = IF ~is_alive /\ pollsSinceDead < MaxPollsSinceDead
                            THEN pollsSinceDead + 1 ELSE pollsSinceDead
    /\ pulse' = NoPulse
    /\ UNCHANGED << camera, lineBound, lineHeld, loc, captures, dirExists,
                    files, fixAtCheck, saved >>
    /\ UNCHANGED << gpsVars, formatVars, wikiVars >>

\* PpsCheckFix as it would be with the test "fix is None" at line 117.
PpsCheckFix_OnlyNone ==
    /\ pcMain = "L117"
    /\ fixAtCheck' = gps
    /\ pcMain' = IF gps.fix = "None" THEN "L168" ELSE "L123"
    /\ UNCHANGED << camera, lineBound, lineHeld, loc, captures,
                    dirExists, files >>
    /\ UNCHANGED << pulse, saved >>
    /\ UNCHANGED mainFrame

\* Lines 117-119: return without a capture unless the fix flag is truthy.
PpsCheckFix ==
    /\ pcMain = "L117"
    /\ fixAtCheck' = gps
    /\ pcMain' = IF gps.fix # "True" THEN "L168" ELSE "L123"
    /\ UNCHANGED << camera, lineBound, lineHeld, loc, captures,
                    dirExists, files >>
    /\ UNCHANGED << pulse, saved >>
    /\ UNCHANGED mainFrame

\* PpsCapture as it would be if a falsy request were asked for again.
PpsCapture_Retry ==
    /\ pcMain = "L123"
    /\ captures' = captures + 1
    /\ pulse' = [pulse EXCEPT !.captures = @ + 1]
    /\ \E got \in BOOLEAN :
         IF got THEN /\ loc' = [loc EXCEPT !.request = "held"]
                     /\ pcMain' = "L125"
                ELSE /\ loc' = [loc EXCEPT !.request = "null"]
                     /\ pcMain' = IF captures' < MaxCaptures THEN "L123" ELSE "L168"
    /\ UNCHANGED << camera, lineBound, lineHeld, dirExists, files,
                    fixAtCheck, saved >>
    /\ UNCHANGED mainFrame

\* Lines 123-124: picam2.capture_request(); a falsy request ends the callback.
PpsCapture ==
    /\ pcMain = "L123"
    /\ captures' = captures + 1
    /\ pulse' = [pulse EXCEPT !.captures = @ + 1]
    /\ \E got \in BOOLEAN :
         IF got THEN /\ loc' = [loc EXCEPT !.request = "held"]
                     /\ pcMain' = "L125"
                ELSE /\ loc' = [loc EXCEPT !.request = "null"]
                     /\ pcMain' = "L168"
    /\ UNCHANGED << camera, lineBound, lineHeld, dirExists, files,
                    fixAtCheck, saved >>
    /\ UNCHANGED mainFrame

\* PpsMakeBuffer as it would be with request.release() moved up to line 127.
PpsMakeBuffer_ReleaseEarly ==
    /\ pcMain = "L125"
    /\ loc' = [loc EXCEPT !.image_data = captures, !.request = "released"]
    /\ pcMain' = "L75"
    /\ UNCHANGED << camera, lineBound, lineHeld, captures, dirExists,
                    files, fixAtCheck >>
    /\ UNCHANGED << pulse, saved >>
    /\ UNCHANGED mainFrame

\* Lines 125-126: copy the frame out of the request, read its metadata.
PpsMakeBuffer ==
    /\ pcMain = "L125"
    /\ loc' = [loc EXCEPT !.image_data = captures]
    /\ pcMain' = "L75"
    /\ UNCHANGED << camera, lineBound, lineHeld, captures, dirExists,
                    files, fixAtCheck >>
    /\ UNCHANGED << pulse, saved >>
    /\ UNCHANGED mainFrame

\* Line 131: request.release(), then pps_callback returns.
PpsRelease ==
    /\ pcMain = "L131"
    /\ loc' = [NoLocals EXCEPT !.request = "released"]
    /\ pcMain' = "L168"
    /\ UNCHANGED << camera, lineBound, lineHeld, captures, dirExists,
                    files, fixAtCheck >>
    /\ UNCHANGED << pulse, saved >>
    /\ UNCHANGED mainFrame

\* Line 168: time.sleep(0.01), then the next iteration; the locals of the
\* finished callback are gone.
MainSleep ==
    /\ pcMain = "L168"
    /\ pcMain' = "L160"
    /\ loc' = NoLocals
    /\ fixAtCheck' = latest_gps_data
    /\ pulse' = NoPulse
    /\ UNCHANGED << camera, lineBound, lineHeld, captures, dirExists,
                    files, saved >>
    /\ UNCHANGED mainFrame

\* MainCleanup as it would be without the release of line 180.
MainCleanup_NoRelease ==
    /\ pcMain = "L176"
    /\ camera' = IF camera = "running" THEN "stopped" ELSE camera
    /\ lineHeld' = lineHeld
    /\ pcMain' = "done"
    /\ UNCHANGED << lineBound, loc, captures, dirExists, files, fixAtCheck >>
    /\ UNCHANGED << pulse, saved >>
    /\ UNCHANGED mainFrame

\* Lines 175-181: the finally block stops the camera when it is open and
\* releases the line when the name pps_line is bound; then the script ends.
MainCleanup ==
    /\ pcMain = "L176"
    /\ camera' = IF camera = "running" THEN "stopped" ELSE camera
    /\ lineHeld' = IF lineBound THEN FALSE ELSE lineHeld
    /\ pcMain' = "done"
    /\ UNCHANGED << lineBound, loc, captures, dirExists, files, fixAtCheck >>
    /\ UNCHANGED << pulse, saved >>
    /\ UNCHANGED mainFrame

\* ------------------------------------------------ save_photo_with_exif
\* gps_info is the dictionary latest_gps_data itself, so each read below
\* sees what the decoder has written up to that moment.
saveFrame == << camera, lineBound, lineHeld, captures, fixAtCheck >>

\* Lines 75-76: create OUTPUT_DIR when it is missing.
SaveMakeDir ==
    /\ pcMain = "L75"
    /\ dirExists' = TRUE
    /\ pcMain' = "L79"
    /\ UNCHANGED << loc, files >>
    /\ UNCHANGED saveFrame
    /\ UNCHANGED << pulse, saved >>
    /\ UNCHANGED mainFrame

\* Line 79: lat_exif from gps_info["latitude"]; None > 0 is a TypeError.
SaveLatitude ==
    /\ pcMain = "L79"
    /\ IF gps.latitude = None
          THEN /\ Raise
               /\ loc' = loc
          ELSE /\ loc' = [loc EXCEPT !.lat_exif =
                    Some(format_gps_for_exif(Val(gps.latitude),
                                             LatRef(Val(gps.latitude))))]
               /\ pcMain' = "L80"
    /\ UNCHANGED << dirExists, files >>
    /\ UNCHANGED saveFrame
    /\ UNCHANGED << pulse, saved >>
    /\ UNCHANGED mainFrame

\* Line 80: lon_exif from gps_info["longitude"].
SaveLongitude ==
    /\ pcMain = "L80"
    /\ IF gps.longitude = None
          THEN /\ Raise
               /\ loc' = loc
          ELSE /\ loc' = [loc EXCEPT !.lon_exif =
                    Some(format_gps_for_exif(Val(gps.longitude),
                                             LonRef(Val(gps.longitude))))]
               /\ pcMain' = "L85"
    /\ UNCHANGED << dirExists, files >>
    /\ UNCHANGED saveFrame
    /\ UNCHANGED << pulse, saved >>
    /\ UNCHANGED mainFrame

\* Line 85: GPSLatitudeRef from a second read of gps_info["latitude"].
SaveLatitudeRef ==
    /\ pcMain = "L85"
    /\ IF gps.latitude = None
          THEN /\ Raise
               /\ loc' = loc
          ELSE /\ loc' = [loc EXCEPT !.lat_ref = Some(LatRef(Val(gps.latitude)))]
               /\ pcMain' = "L87"
    /\ UNCHANGED << dirExists, files >>
    /\ UNCHANGED saveFrame
    /\ UNCHANGED << pulse, saved >>
    /\ UNCHANGED mainFrame

\* Line 87: GPSLongitudeRef from a second read of gps_info["longitude"].
SaveLongitudeRef ==
    /\ pcMain = "L87"
    /\ IF gps.longitude = None
          THEN /\ Raise
               /\ loc' = loc
          ELSE /\ loc' = [loc EXCEPT !.lon_ref = Some(LonRef(Val(gps.longitude)))]
               /\ pcMain' = "L89"
    /\ UNCHANGED << dirExists, files >>
    /\ UNCHANGED saveFrame
    /\ UNCHANGED << pulse, saved >>
    /\ UNCHANGED mainFrame

\* Line 89: GPSDateStamp; None has no strftime (AttributeError).
SaveDateStamp ==
    /\ pcMain = "L89"
    /\ IF gps.timestamp = None
          THEN /\ Raise
               /\ loc' = loc
          ELSE /\ loc' = [loc EXCEPT !.date = Some(DateStamp(Val(gps.timestamp)))]
               /\ pcMain' = "L91"
    /\ UNCHANGED << dirExists, files >>
    /\ UNCHANGED saveFrame
    /\ UNCHANGED << pulse, saved >>
    /\ UNCHANGED mainFrame

\* Line 91: the hour of GPSTimeStamp.
SaveHour ==
    /\ pcMain = "L91"
    /\ IF gps.timestamp = None
          THEN /\ Raise
               /\ loc' = loc
          ELSE /\ loc' = [loc EXCEPT !.hour = Some(<<HourOf(Val(gps.timestamp)), 1>>)]
               /\ pcMain' = "L92"
    /\ UNCHANGED << dirExists, files >>
    /\ UNCHANGED saveFrame
    /\ UNCHANGED << pulse, saved >>
    /\ UNCHANGED mainFrame

\* Line 92: the minute of GPSTimeStamp.
SaveMinute ==
    /\ pcMain = "L92"
    /\ IF gps.timestamp = None
          THEN /\ Raise
               /\ loc' = loc
          ELSE /\ loc' = [loc EXCEPT !.minute = Some(<<MinuteOf(Val(gps.timestamp)), 1>>)]
               /\ pcMain' = "L93"
    /\ UNCHANGED << dirExists, files >>
    /\ UNCHANGED saveFrame
    /\ UNCHANGED << pulse, saved >>
    /\ UNCHANGED mainFrame

\* Line 93: the second of GPSTimeStamp.
SaveSecond ==
    /\ pcMain = "L93"
    /\ IF gps.timestamp = None
          THEN /\ Raise
               /\ loc' = loc
          ELSE /\ loc' = [loc EXCEPT !.second = Some(<<SecondOf(Val(gps.timestamp)), 1>>)]
               /\ pcMain' = "L100"
    /\ UNCHANGED << dirExists, files >>
    /\ UNCHANGED saveFrame
    /\ UNCHANGED << pulse, saved >>
    /\ UNCHANGED mainFrame

\* Lines 100-101: the file name from one more read of the timestamp.
SaveFileName ==
    /\ pcMain = "L100"
    /\ IF gps.timestamp = None
          THEN /\ Raise
               /\ loc' = loc
          ELSE /\ loc' = [loc EXCEPT !.stamp = gps.timestamp,
                                      !.filename = Some(FileName(Val(gps.timestamp)))]
               /\ pcMain' = "L103"
    /\ UNCHANGED << dirExists, files >>
    /\ UNCHANGED saveFrame
    /\ UNCHANGED << pulse, saved >>
    /\ UNCHANGED mainFrame

\* The GPS dictionary of lines 83-96 as collected in the locals.
ExifDict(l) ==
    [GPSLatitudeRef |-> Val(l.lat_ref), GPSLatitude |-> Val(l.lat_exif),
     GPSLongitudeRef |-> Val(l.lon_ref), GPSLongitude |-> Val(l.lon_exif),
     GPSDateStamp |-> Val(l.date),
     GPSTimeStamp |-> << Val(l.hour), Val(l.minute), Val(l.second) >>]

\* Lines 103-104: open(filepath, "wb") truncates or creates the file and
\* writes the raw image, with no EXIF block yet.
SaveWrite ==
    /\ pcMain = "L103"
    /\ files' = [n \in DOMAIN files \cup {Val(loc.filename)} |->
                   IF n = Val(loc.filename)
                      THEN [img |-> loc.image_data, exif |-> None]
                      ELSE files[n]]
    /\ pulse' = [pulse EXCEPT !.writes = @ + 1]
    /\ saved' = Append(saved, << Val(loc.stamp), loc.image_data >>)
    /\ pcMain' = "L107"
    /\ UNCHANGED << loc, dirExists >>
    /\ UNCHANGED saveFrame
    /\ UNCHANGED mainFrame

\* Lines 107-108: piexif.insert puts the EXIF block into the written file.
SaveInsert ==
    /\ pcMain = "L107"
    /\ files' = [files EXCEPT ![Val(loc.filename)].exif = Some(ExifDict(loc))]
    /\ pcMain' = "L131"
    /\ UNCHANGED << loc, dirExists >>
    /\ UNCHANGED saveFrame
    /\ UNCHANGED << pulse, saved >>
    /\ UNCHANGED mainFrame

\* ------------------------------------------------------- specification
SaveStep ==
    \/ SaveMakeDir \/ SaveLatitude \/ SaveLongitude \/ SaveLatitudeRef
    \/ SaveLongitudeRef \/ SaveDateStamp \/ SaveHour \/ SaveMinute
    \/ SaveSecond \/ SaveFileName \/ SaveWrite \/ SaveInsert

MainStep ==
    \/ MainCameraInit \/ MainChip \/ MainGetLine \/ MainRequestLine
    \/ MainAliveCheck \/ MainHasEvent \/ PpsCheckFix \/ PpsCapture
    \/ PpsMakeBuffer \/ SaveStep \/ PpsRelease \/ MainSleep
    \/ MainCleanup

Next == GpsStep \/ MainStep

Spec == Init /\ [][Next]_vars

\* ------------------------------------- format_gps_for_exif on its own
\* The arguments: every combination of 0, 1, 89 and 179 degrees, 0, 1 and 59
\* minutes, 0, 0.01 and 59.99 seconds, and every fraction of a hundredth of
\* a second that a coordinate can carry; all of them in 0 <= d < 180.
FormatInputs ==
    { deg * Degree + min * Minute + hun * Hundredth + frac :
        deg \in {0, 1, 89, 179}, min \in {0, 1, 59}, hun \in {0, 1, 5999},
        frac \in 0 .. (Resolution - 1) }

FormatInit ==
    /\ degrees \in FormatInputs
    /\ dms = None
    /\ CaptureInit /\ WikiIdle

\* Lines 60-69 called as lines 79-80 call it, with either letter of a pair.
FormatCall ==
    /\ dms = None
    /\ \E direction \in {"N", "S", "E", "W"} :
         dms' = Some(format_gps_for_exif(degrees, direction))
    /\ UNCHANGED << degrees, captureVars, wikiVars >>

FormatNext == FormatCall

FormatSpec == FormatInit /\ [][FormatNext]_vars

\* ------------------------------------------------------------ pi_wiki.py
\* A string is a sequence of characters.  The characters of the page names
\* requested: a letter, the space, the hyphen, the dot and the slash.
Chars == {"a", " ", "-", ".", "/"}
PageNames == UNION { [1 .. n -> Chars] : n \in 0 .. MaxNameLen }

\* The name of the default page (lines 83 and 141).
HomeName == << "H", "o", "m", "e" >>

\* c.isalnum() over the characters above and those of HomeName.
isalnum(c) == c \in {"a", "H", "o", "m", "e"}

\* Line 7; the directory name is one token of a path.
WIKI_PAGES_DIR == << "wiki_pages" >>

\* str.rstrip(): without the trailing whitespace.
RECURSIVE rstrip(_)
rstrip(str) ==
    IF str # << >> /\ str[Len(str)] = " "
       THEN rstrip(SubSeq(str, 1, Len(str) - 1))
       ELSE str

\* os.path.join(a, b): b alone when b is absolute, else a, a slash and b.
join(a, b) ==
    IF b # << >> /\ b[1] = "/" THEN b ELSE a \o << "/" >> \o b

\* The test of line 76 on one character.
Kept(c) == isalnum(c) \/ c \in {" ", "_", "-"}

\* get_page_path as it would be without the filter of line 76.
get_page_path_Unsanitized(page_name) ==
    join(WIKI_PAGES_DIR, page_name \o << ".", "m", "d" >>)

\* Lines 73-77.
get_page_path(page_name) ==
    LET safe_page_name == rstrip(SelectSeq(page_name, Kept))
    IN  join(WIKI_PAGES_DIR, safe_page_name \o << ".", "m", "d" >>)

\* Lines 134-148: the directory exists and holds the Home page.
WikiInit ==
    /\ wiki_pages = { get_page_path(HomeName) }
    /\ wikiReq = None
    /\ CaptureInit /\ FormatIdle

\* os.path.exists(filepath)
exists(filepath) == filepath \in wiki_pages

\* A request is routed to view_page (GET) or to edit_page (GET or POST) with
\* its page name.  The converter of the route passes no name with a slash;
\* the handlers are given such names as well.  A POST that would create a
\* page is sent only while fewer than MaxPages pages have been created.
WikiRequest ==
    /\ wikiReq = None
    /\ \E handler \in {"view_page", "edit_page"}, method \in {"GET", "POST"},
          page_name \in PageNames :
         /\ handler = "view_page" => method = "GET"
         /\ method = "POST" =>
               \/ exists(get_page_path(page_name))
               \/ Cardinality(wiki_pages) < MaxPages + 1
         /\ wikiReq' = Some([handler |-> handler, method |-> method,
                             page_name |-> page_name, filepath |-> None,
                             opened |-> "none", response |-> "none"])
    /\ UNCHANGED << wiki_pages, captureVars, formatVars >>

\* Lines 85-105: view_page reads the page when it exists and redirects to
\* the edit view when it does not.
view_page ==
    /\ wikiReq # None
    /\ Val(wikiReq).handler = "view_page" /\ Val(wikiReq).response = "none"
    /\ LET filepath == get_page_path(Val(wikiReq).page_name)
       IN  wikiReq' = Some([Val(wikiReq) EXCEPT
                 !.filepath = Some(filepath),
                 !.opened = IF exists(filepath) THEN "r" ELSE "none",
                 !.response = IF exists(filepath) THEN "page" ELSE "redirect"])
    /\ UNCHANGED << wiki_pages, captureVars, formatVars >>

\* Lines 107-131: edit_page writes the page on POST (creating it when it is
\* missing) and redirects to the view; on GET it reads the page when it
\* exists and shows the form.
edit_page ==
    /\ wikiReq # None
    /\ Val(wikiReq).handler = "edit_page" /\ Val(wikiReq).response = "none"
    /\ LET filepath == get_page_path(Val(wikiReq).page_name)
       IN  IF Val(wikiReq).method = "POST"
              THEN /\ wiki_pages' = wiki_pages \cup {filepath}
                   /\ wikiReq' = Some([Val(wikiReq) EXCEPT
                         !.filepath = Some(filepath),
                         !.opened = "w",
                         !.response = "redirect"])
              ELSE /\ wiki_pages' = wiki_pages
                   /\ wikiReq' = Some([Val(wikiReq) EXCEPT
                         !.filepath = Some(filepath),
                         !.opened = IF exists(filepath) THEN "r" ELSE "none",
                         !.response = "form"])
    /\ UNCHANGED << captureVars, formatVars >>

\* The response is sent; the server waits for the next request.
WikiRespond ==
    /\ wikiReq # None
    /\ Val(wikiReq).response # "none"
    /\ wikiReq' = None
    /\ UNCHANGED << wiki_pages, captureVars, formatVars >>

WikiNext == WikiRequest \/ view_page \/ edit_page \/ WikiRespond

WikiSpec == WikiInit /\ [][WikiNext]_vars

\* A path that names a file directly inside WIKI_PAGES_DIR: the directory, a
\* slash, and a file name without a slash that is neither "." nor "..".
InsideWikiDir(path) ==
    /\ Len(path) > 2
    /\ path[1] = "wiki_pages" /\ path[2] = "/"
    /\ LET file == SubSeq(path, 3, Len(path))
       IN  /\ \A i \in DOMAIN file : file[i] # "/"
           /\ file \notin { << "." >>, << ".", "." >> }

\* ------------------------------------------------------------- positions
\* The positions inside save_photo_with_exif (lines 75-107) and inside
\* pps_callback including the save (lines 117-131).
SavePcs == {"L75", "L79", "L80", "L85", "L87", "L89", "L91", "L92", "L93",
            "L100", "L103", "L107"}
CallbackPcs == {"L117", "L123", "L125", "L131"} \cup SavePcs

\* The EXIF block and the file name that save_photo_with_exif derives from
\* one complete fix record.
ExifOf(fix) ==
    [GPSLatitudeRef |-> LatRef(Val(fix.latitude)),
     GPSLatitude |-> format_gps_for_exif(Val(fix.latitude), LatRef(Val(fix.latitude))),
     GPSLongitudeRef |-> LonRef(Val(fix.longitude)),
     GPSLongitude |-> format_gps_for_exif(Val(fix.longitude), LonRef(Val(fix.longitude))),
     GPSDateStamp |-> DateStamp(Val(fix.timestamp)),
     GPSTimeStamp |-> << <<HourOf(Val(fix.timestamp)), 1>>,
                         <<MinuteOf(Val(fix.timestamp)), 1>>,
                         <<SecondOf(Val(fix.timestamp)), 1>> >>]

\* ------------------------------------------------------------------ claims

\* C1: when pps_callback handles a pulse while the fix flag is not True (None
\* or False), that step requests no capture, creates or changes no file and
\* no directory, leaves latest_gps_data as it is, takes no request, and puts
\* the main loop at its sleep, from where it polls again.
C1_SkipWithoutFix ==
    [][ (pcMain = "L117" /\ pcMain' # "L117" /\ gps.fix # "True")
          => /\ captures' = captures
             /\ files' = files
             /\ dirExists' = dirExists
             /\ gps' = gps
             /\ loc' = loc
             /\ pcMain' = "L168" ]_vars

\* A pulse has just been skipped because the decoder had failed.
C1_Witness ==
    /\ pcMain = "L168"
    /\ fixAtCheck.fix = "False"
    /\ loc = NoLocals
    /\ captures = 0 /\ files = NoFiles /\ ~dirExists

\* C2: in every state, a fix flag of True implies that timestamp, latitude
\* and longitude are all present.
C2_FixImpliesComplete ==
    gps.fix = "True" =>
        /\ gps.timestamp # None
        /\ gps.latitude # None
        /\ gps.longitude # None

\* C3: a failure while one pulse is handled does not end the polling loop:
\* from every position inside pps_callback the main thread stays inside it
\* or returns to the loop's sleep.
C3_PulseFailureKeepsLoop ==
    [][ (pcMain \in CallbackPcs) => (pcMain' \in CallbackPcs \cup {"L168"}) ]_vars

\* C4: when save_photo_with_exif has written an artifact, its file name and
\* its EXIF block are those derived from latest_gps_data as it was when line
\* 117 read the fix flag.
C4_ArtifactIsFixAtCheck ==
    pcMain = "L131" =>
        /\ fixAtCheck.timestamp # None
        /\ fixAtCheck.latitude # None
        /\ fixAtCheck.longitude # None
        /\ Val(loc.filename) = FileName(Val(fixAtCheck.timestamp))
        /\ files[Val(loc.filename)].exif = Some(ExifOf(fixAtCheck))

C6_OpenFailure ==
    serialErr = "open" =>
        /\ pcGps \in {"end", "dead"} => gps.fix = "False"
        /\ gps.fix # "True"
        /\ captures = 0 /\ files = NoFiles /\ ~dirExists
        /\ pcMain \notin CallbackPcs \ {"L117"}
        /\ pollsSinceDead <= 1

\* The main loop has just left because the decoder, whose port never opened,
\* is dead.
C6_Witness ==
    /\ serialErr = "open"
    /\ pcGps = "dead"
    /\ gps.fix = "False"
    /\ pcMain = "L176"
    /\ lineHeld

\* C7 as stated: once the decoder thread is dead, no capture is requested
\* and no file is written.
C7_NothingAfterDecoderStopped ==
    [][ pcGps = "dead" => captures' = captures /\ files' = files ]_vars

\* C7 as the code has it: the decoder's handler leaves the fix flag False
\* before the thread ends, so once the thread is dead every fix check skips
\* its pulse and the first liveness check leaves the loop; a pulse that had
\* passed its fix check before the thread died is the only one still
\* captured and written; and the main loop polls the line at most once
\* after the thread's end before it leaves for the shutdown sequence.
C7_NoNewCaptureAfterDecoderStopped ==
    [][ /\ pcGps' \in {"end", "dead"} => gps'.fix = "False"
        /\ (pcGps = "dead" /\ pcMain = "L117") => pcMain' \in {"L117", "L168"}
        /\ (pcGps = "dead" /\ pcMain = "L160") => pcMain' \in {"L160", "L176"}
        /\ (pcGps = "dead" /\ captures' # captures) => fixAtCheck.fix = "True"
        /\ pollsSinceDead' <= 1 ]_vars

\* The decoder died of a serial failure after a fix had been valid, and the
\* pulse checked after that was skipped.
C7_Witness ==
    /\ pcGps = "dead"
    /\ serialErr = "read"
    /\ gps.latitude # None
    /\ pcMain = "L168"
    /\ fixAtCheck.fix = "False"
    /\ pollsSinceDead = 1

\* C8: when the main thread has left the script through the finally block,
\* the camera is stopped and the PPS line is not held; the only exit that
\* skips the finally block is a failure before the camera was started.
C8_ShutdownReleases ==
    /\ pcMain = "done" => camera = "stopped" /\ ~lineHeld
    /\ pcMain = "crashed" => camera = "off" /\ ~lineHeld

\* The script was left through an exception raised while a pulse was handled,
\* with the line acquired before.
C8_Witness ==
    /\ pcMain = "done"
    /\ lineBound
    /\ loc.request = "held"
    /\ camera = "stopped"

\* C9: a recognized sentence that does not parse, or parses with is_valid
\* false, leaves every field of latest_gps_data as it was, and the decoder
\* goes back to readline.
C9_BadSentenceDiscarded ==
    [][ ( /\ pcGps = "L42" /\ pcGps' # "L42"
          /\ msg.kind \in {"RMC", "GGA"}
          /\ (msg.parse = "error" \/ ~msg.valid) )
          => gps' = gps /\ pcGps' = "L41" ]_vars

\* The decoder holds a parsed but invalid GGA sentence while the record
\* carries an earlier fix.
C9_Witness ==
    /\ pcGps = "L42"
    /\ msg.kind = "GGA" /\ msg.parse = "ok" /\ ~msg.valid
    /\ gps.fix = "True" /\ gps.timestamp # None

\* C10: when the decoder has finished a valid sentence, the fix flag is True,
\* latitude and longitude are the sentence's, and the timestamp is the
\* sentence's for RMC and the one held before the sentence for GGA; and no
\* step of the decoder changes anything outside latest_gps_data.
C10_ValidSentenceWrites ==
    [][ /\ (pcGps = "L51" /\ pcGps' = "L41")
            => gps' = [fix |-> "True",
                       timestamp |-> IF msg.kind = "RMC" THEN msg.ts
                                     ELSE gpsAtRead.timestamp,
                       latitude |-> Some(msg.lat),
                       longitude |-> Some(msg.lon)]
        /\ (pcGps' # pcGps)
            => UNCHANGED << camera, lineBound, lineHeld, loc, captures,
                            dirExists, files >> ]_vars

\* A GGA sentence has been applied on top of an RMC sentence: its position
\* with the RMC's timestamp.
C10_Witness ==
    /\ pcGps = "L41"
    /\ gps = [fix |-> "True", timestamp |-> Some(Noon - 1),
              latitude |-> Some(Lat33S), longitude |-> Some(0)]

\* C11: the decoder's update of latest_gps_data is not one step.  While it
\* stands between its writes the record is partial: after line 46 the new fix
\* flag with everything else stale, after line 48 the new timestamp paired
\* with the stale coordinates, after line 50 the new latitude paired with the
\* stale longitude; the main thread runs meanwhile and every read of
\* save_photo_with_exif takes the field as it is then.
C11_RecordPartialMidUpdate ==
    /\ pcGps \in {"L41", "L42", "L46"} => gps = gpsAtRead
    /\ pcGps = "L47" => gps = [gpsAtRead EXCEPT !.fix = "True"]
    /\ pcGps = "L49" =>
          gps = [gpsAtRead EXCEPT !.fix = "True",
                                  !.timestamp = IF msg.kind = "RMC" THEN msg.ts ELSE @]
    /\ pcGps = "L51" =>
          gps = [gpsAtRead EXCEPT !.fix = "True",
                                  !.timestamp = IF msg.kind = "RMC" THEN msg.ts ELSE @,
                                  !.latitude = Some(msg.lat)]

\* A pulse arrived while the decoder stood between the timestamp and the
\* latitude of the noon sentence, and the artifact on disk pairs the noon
\* timestamp with the position of the sentence before.
C11_Witness ==
    /\ pcMain = "L131"
    /\ pcGps = "L49" /\ msg.ts = Some(Noon)
    /\ gpsAtRead = [fix |-> "True", timestamp |-> Some(Noon - 1),
                    latitude |-> Some(Lat51N), longitude |-> Some(Lon0W)]
    /\ fixAtCheck = [gpsAtRead EXCEPT !.timestamp = Some(Noon)]
    /\ FileName(Noon) \in DOMAIN files
    /\ files[FileName(Noon)].exif =
          Some([ExifOf(gpsAtRead) EXCEPT
                  !.GPSDateStamp = DateStamp(Noon),
                  !.GPSTimeStamp = << <<12, 1>>, <<0, 1>>, <<0, 1>> >>])

\* C12: the files of OUTPUT_DIR are exactly the names made from the
\* timestamps that line 100 read for the file writes done so far; two writes
\* have the same name exactly when their timestamps lie in the same second,
\* so there is one file per second used; and each file holds the image of
\* the latest write under its name (a later write in the same second has
\* replaced the earlier image, a write in another second has left it alone).
C12_OneFilePerSecond ==
    LET Stamp(i) == saved[i][1]
        Second(i) == Stamp(i) \div TicksPerSecond
        Latest(n) == CHOOSE i \in DOMAIN saved :
                        /\ FileName(Stamp(i)) = n
                        /\ \A j \in DOMAIN saved :
                              FileName(Stamp(j)) = n => j <= i
    IN  /\ DOMAIN files = { FileName(Stamp(i)) : i \in DOMAIN saved }
        /\ \A i, j \in DOMAIN saved :
              (FileName(Stamp(i)) = FileName(Stamp(j))) <=> (Second(i) = Second(j))
        /\ Cardinality(DOMAIN files)
              = Cardinality({ Second(i) : i \in DOMAIN saved })
        /\ \A n \in DOMAIN files : files[n].img = saved[Latest(n)][2]

\* Two photos were taken half a second apart within the second of noon: one
\* file, holding the second image.
C12_Witness ==
    /\ pcMain = "L131"
    /\ saved = << << Noon, 1 >>, << Noon + 1, 2 >> >>
    /\ DOMAIN files = { FileName(Noon) }
    /\ files[FileName(Noon)].img = 2

\* C13: when a pulse handled with a fix and a successful capture has been
\* saved, exactly one file was written for it, named from the fix timestamp
\* and holding the raw image, and the degree, minute and second components
\* of GPSLatitude and GPSLongitude in its geotag are not negative (the sign
\* is carried by the reference letter only).
C13_MagnitudeInGeotag ==
    pcMain = "L131" =>
        LET f == files[Val(loc.filename)]
        IN  /\ pulse.writes = 1
            /\ Val(loc.filename) = FileName(Val(loc.stamp))
            /\ f.img = loc.image_data
            /\ f.exif # None
            /\ \A k \in 1..3 : /\ Val(f.exif).GPSLatitude[k][1] >= 0
                               /\ Val(f.exif).GPSLongitude[k][1] >= 0

\* C14: for every argument d with 0 <= d < 180, format_gps_for_exif returns
\* ((deg, 1), (min, 1), (sec, 100)) with deg the whole degrees of d,
\* 0 <= min < 60, 0 <= sec < 6000, and deg + min/60 + sec/360000 not above d
\* and less than one hundredth of a second of arc below it.
C14_FormatBounds ==
    dms # None =>
        LET deg == Val(dms)[1][1]
            min == Val(dms)[2][1]
            sec == Val(dms)[3][1]
            back == (deg * 360000 + min * 6000 + sec) * Resolution
        IN  /\ Val(dms)[1][2] = 1 /\ Val(dms)[2][2] = 1 /\ Val(dms)[3][2] = 100
            /\ deg = degrees \div (360000 * Resolution)
            /\ 0 <= min /\ min < 60
            /\ 0 <= sec /\ sec < 6000
            /\ 0 <= degrees - back /\ degrees - back < Resolution

\* 179 degrees 59 minutes 59.99 seconds and a fraction has been converted.
C14_Witness ==
    /\ degrees = 179 * Degree + 59 * Minute + 5999 * Hundredth + (Resolution - 1)
    /\ dms = Some(<< <<179, 1>>, <<59, 1>>, <<5999, 100>> >>)

\* C15: the latitude reference that save_photo_with_exif takes is "N" when
\* the latitude it reads is above 0 and "S" otherwise, zero included; the
\* longitude reference is "E" when the longitude is above 0 and "W"
\* otherwise, zero included; and these letters are the ones in the geotag
\* of the file written.
C15_HemisphereRefs ==
    [][ /\ (pcMain = "L85" /\ pcMain' = "L87")
            => loc'.lat_ref = Some(IF Val(gps.latitude) > 0 THEN "N" ELSE "S")
        /\ (pcMain = "L87" /\ pcMain' = "L89")
            => loc'.lon_ref = Some(IF Val(gps.longitude) > 0 THEN "E" ELSE "W")
        /\ (pcMain = "L107" /\ pcMain' = "L131")
            => LET exif == Val(files'[Val(loc.filename)].exif)
               IN  /\ exif.GPSLatitudeRef = Val(loc.lat_ref)
                   /\ exif.GPSLongitudeRef = Val(loc.lon_ref) ]_vars

\* A photo taken on the equator at 151 E is on disk with the letters S and E.
C15_Witness ==
    /\ pcMain = "L131"
    /\ gps.latitude = Some(0) /\ gps.longitude = Some(Lon151E)
    /\ fixAtCheck = gps
    /\ LET exif == Val(files[Val(loc.filename)].exif)
       IN  /\ exif.GPSLatitudeRef = "S"
           /\ exif.GPSLatitude = << <<0, 1>>, <<0, 1>>, <<0, 100>> >>
           /\ exif.GPSLongitudeRef = "E"

\* C16: for one edge event read by the main loop at most one capture request
\* is made and at most one file is written, and a file only after a
\* request; when the request came back falsy the callback has ended at the
\* loop's sleep with no write, and the step after it changes no file, makes
\* no request and goes on to the next iteration.
C16_SingleAttempt ==
    [][ /\ pulse'.captures <= 1
        /\ pulse'.writes <= pulse'.captures
        /\ loc'.request = "null" => pcMain' = "L168" /\ pulse'.writes = 0
        /\ loc.request = "null" =>
              /\ files' = files /\ captures' = captures
              /\ pcMain' \in {"L168", "L160"} ]_vars

\* A pulse with a fix whose capture request came back falsy: nothing on disk.
C16_Witness ==
    /\ pcMain = "L168"
    /\ loc.request = "null"
    /\ fixAtCheck.fix = "True"
    /\ pulse = [captures |-> 1, writes |-> 0]
    /\ files = NoFiles

\* C17: whenever the main thread is outside pps_callback (in the polling
\* loop, in the shutdown sequence or finished), no capture request obtained
\* from the image pipeline is still held: every path out of the callback,
\* the one taken by an error raised while saving included, has released it.
C17_ReleasedOnEveryPath ==
    pcMain \notin CallbackPcs => loc.request # "held"

\* C18: once the fix flag is True, the only step that takes it away is the
\* handler of a serial failure, which sets it to False as the decoder stops;
\* a line that is discarded (unrecognized, malformed or not valid) leaves the
\* flag as it was; and a pulse checked while the flag is True goes on to
\* the capture, whatever line the decoder holds at that moment.
C18_FixStaysTrue ==
    [][ /\ (gps.fix = "True" /\ gps'.fix # "True")
            => gps'.fix = "False" /\ serialErr' = "read" /\ pcGps' = "end"
        /\ (pcGps = "L42" /\ pcGps' # "L42" /\ msg \notin ValidSentences)
            => gps'.fix = gps.fix
        /\ (pcMain = "L117" /\ pcMain' # "L117" /\ gps.fix = "True")
            => pcMain' = "L123" ]_vars

\* The receiver reports an invalid sentence, and a photo has been saved with
\* the timestamp and position of the last valid one.
C18_Witness ==
    /\ pcMain = "L131"
    /\ pcGps = "L42" /\ msg \in BadSentences /\ msg.parse = "ok"
    /\ gps = [fix |-> "True", timestamp |-> Some(Noon - 1),
              latitude |-> Some(Lat51N), longitude |-> Some(Lon0W)]
    /\ fixAtCheck = gps
    /\ FileName(Noon - 1) \in DOMAIN files
    /\ files[FileName(Noon - 1)].exif = Some(ExifOf(gps))

\* C19: every file that exists in the wiki, and the path that view_page or
\* edit_page has computed for the request it handles, is a file directly
\* inside wiki_pages: the directory, a slash, a name made only of
\* alphanumerics, space, underscore and hyphen, and ".md".
C19_PathInsideWikiDir ==
    LET Safe(path) ==
            /\ InsideWikiDir(path)
            /\ Len(path) >= 5
            /\ SubSeq(path, Len(path) - 2, Len(path)) = << ".", "m", "d" >>
            /\ \A i \in 3 .. (Len(path) - 3) :
                  path[i] \in {"a", "H", "o", "m", "e", " ", "_", "-"}
    IN  /\ \A p \in wiki_pages : Safe(p)
        /\ (wikiReq # None /\ Val(wikiReq).filepath # None)
              => Safe(Val(Val(wikiReq).filepath))

\* A POST for the page name "/a" has written wiki_pages/a.md.
C19_Witness ==
    /\ wikiReq # None
    /\ Val(wikiReq).page_name = << "/", "a" >>
    /\ Val(wikiReq).opened = "w"
    /\ Val(wikiReq).filepath = Some(<< "wiki_pages", "/", "a", ".", "m", "d" >>)
    /\ << "wiki_pages", "/", "a", ".", "m", "d" >> \in wiki_pages

====
